---- MODULE Spec2Model ----
(***************************************************************************)
(* Model of the client-side chat session and event store of Mindual        *)
(* (src/web/src/App.jsx).                                                  *)
(*                                                                         *)
(* The component's React state (messages, question, loading,               *)
(* calendarEvents) is the state of the model.  Every run of an async       *)
(* function between two awaits is one atomic step, as on the JavaScript    *)
(* event loop: handleSubmit up to its fetch, the continuation after the    *)
(* fetch settles, the continuation after resp.json() settles, and the      *)
(* continuation after the awaited fetchEvents() settles; likewise for      *)
(* fetchEvents.  A continuation that is queued as a microtask runs before  *)
(* any other event is taken (MicrotaskPending).  React commits the state   *)
(* updates of a handler before the next event is dispatched, so every      *)
(* handler reads the state its predecessor left.                           *)
(*                                                                         *)
(* The view disables the textarea and the submit button while loading is   *)
(* true (App.jsx 220, 226); the model lets the two handlers fire in every  *)
(* state, which covers events dispatched programmatically as well.         *)
(*                                                                         *)
(* Texts are sequences of tokens: a draft is a sequence of one-character   *)
(* strings, a literal of the source is a one-token sequence, and string    *)
(* concatenation is \o.                                                    *)
(***************************************************************************)
EXTENDS Integers, Sequences, FiniteSets, TLC

VARIABLES messages, question, loading, calendarEvents, mounted,
          calls, refreshes, lastOp, ragBody, today, calendar

vars == <<messages, question, loading, calendarEvents, mounted,
          calls, refreshes, lastOp, ragBody, today, calendar>>

\* ragBody is the parsed body (data, line 110) that the specification of the
\* response interpretation answers the pending request with; the session
\* leaves it alone.  today and calendar are the two memoized values of lines
\* 16-19 and 27-57; no handler of the session changes them.
pure == <<ragBody, today, calendar>>

(***************************************************************************)
(* Bounds of the model.                                                    *)
(***************************************************************************)
MaxSubmits == 2
MaxClock == 1
YearSpan == 27

(***************************************************************************)
(* JavaScript values.  Every optional value is a record with a type tag    *)
(* t, so that undefined, null and a present value can be told apart.       *)
(***************************************************************************)
Undef == [t |-> "undefined", n |-> 0, s |-> <<>>]
Null == [t |-> "null", n |-> 0, s |-> <<>>]
Num(k) == [t |-> "number", n |-> k, s |-> <<>>]
Str(x) == [t |-> "string", n |-> 0, s |-> x]

\* a ?? b
NullishUndefinedOnly(a, b) == IF a.t = "undefined" THEN b ELSE a
Nullish(a, b) == IF a.t \in {"undefined", "null"} THEN b ELSE a

\* if (v): undefined, null, 0 and "" are falsy
Truthy(v) ==
  CASE v.t = "undefined" -> FALSE
    [] v.t = "null" -> FALSE
    [] v.t = "number" -> v.n # 0
    [] v.t = "string" -> v.s # <<>>
    [] OTHER -> TRUE

\* `${v}` of a number or a string
Digits == <<"0", "1", "2", "3", "4", "5", "6", "7", "8", "9">>

RECURSIVE NumText(_)
NumText(k) == IF k < 10 THEN <<Digits[k + 1]>>
              ELSE NumText(k \div 10) \o <<Digits[(k % 10) + 1]>>

Template(v) == IF v.t = "number" THEN NumText(v.n) ELSE v.s

(***************************************************************************)
(* Drafts and String.prototype.trim.                                       *)
(***************************************************************************)
WhiteSpace == {" ", "\t", "\n"}

Drafts == {<<>>, <<" ", "\n">>, <<" ", "a", "\t">>}

RECURSIVE TrimStart(_)
TrimStart(s) == IF s # <<>> /\ Head(s) \in WhiteSpace THEN TrimStart(Tail(s)) ELSE s

RECURSIVE TrimEnd(_)
TrimEnd(s) == IF s # <<>> /\ s[Len(s)] \in WhiteSpace
              THEN TrimEnd(SubSeq(s, 1, Len(s) - 1)) ELSE s

TrimEndOnly(s) == TrimEnd(s)
TrimIdentity(s) == s
Trim(s) == TrimEnd(TrimStart(s))


(***************************************************************************)
(* The RAG response body and its interpretation (handleSubmit 110-131).    *)
(* A parsed body is null or an object with the optional fields answer,     *)
(* result, contexts, sources and intent; a source fragment is null or an   *)
(* object with the optional fields page and page_number.                   *)
(***************************************************************************)
NoArr == [t |-> "undefined", a |-> <<>>]
NullArr == [t |-> "null", a |-> <<>>]
Arr(x) == [t |-> "array", a |-> x]

Frag(p, pn) == [isNull |-> FALSE, page |-> p, page_number |-> pn]
NullFrag == [isNull |-> TRUE, page |-> Undef, page_number |-> Undef]

Obj(an, re, co, so, it) ==
  [isNull |-> FALSE, answer |-> an, result |-> re, contexts |-> co,
   sources |-> so, intent |-> it]
NullData == [isNull |-> TRUE, answer |-> Undef, result |-> Undef,
             contexts |-> NoArr, sources |-> NoArr, intent |-> Undef]

\* what resp.json() settles with: a rejection, or the parsed body
Unparsable == [parsed |-> FALSE, data |-> NullData]
Parsed(data) == [parsed |-> TRUE, data |-> data]

X == Str(<<"X">>)
Y == Str(<<"Y">>)
Reminder == Str(<<"reminder">>)
Rag == Str(<<"rag">>)

RagBodies ==
  { NullData,
    Obj(Undef, Undef, NoArr, NoArr, Undef),
    Obj(X, Undef, NoArr, NoArr, Reminder),
    Obj(X, Undef, Arr(<<Frag(Num(12), Undef)>>), NoArr, Reminder),
    Obj(Undef, Y, Arr(<<Frag(Num(12), Undef)>>), NoArr, Undef),
    Obj(Null, Y, NullArr, Arr(<<Frag(Undef, Num(12))>>), Rag),
    Obj(Y, Undef, Arr(<<NullFrag>>), NoArr, Undef) }

RagJsonOutcomes == {Unparsable} \cup {Parsed(d) : d \in RagBodies}

FallbackText == <<"(no response could be fetched)">>
ApologyText == <<"(sorry, there was a problem connecting to the RAG server)">>
CitationHead == <<"\n\n(ref: p.">>
CitationTail == <<" and other manual content)">>

\* line 117: if (!isReminder && sources.length > 0)
CitesAnyIntent(isReminder, sources) == Len(sources.a) > 0
Cites(isReminder, sources) == ~isReminder /\ Len(sources.a) > 0

\* lines 111-123; threw: a TypeError was raised on the way
Interpret(data) ==
  IF data.isNull THEN [threw |-> TRUE, content |-> <<>>, isReminder |-> FALSE]
  ELSE
    LET answerText == Nullish(Nullish(data.answer, data.result), Str(FallbackText))
        sources == Nullish(Nullish(data.contexts, data.sources), Arr(<<>>))
        intent == Nullish(data.intent, Rag)
        isReminder == intent = Reminder
    IN  IF Cites(isReminder, sources)
        THEN LET first == sources.a[1]
                 pageInfo == Nullish(first.page, first.page_number)
             IN  IF first.isNull
                 THEN [threw |-> TRUE, content |-> <<>>, isReminder |-> isReminder]
                 ELSE [threw |-> FALSE,
                       content |-> IF Truthy(pageInfo)
                                   THEN answerText.s \o CitationHead
                                        \o Template(pageInfo) \o CitationTail
                                   ELSE answerText.s,
                       isReminder |-> isReminder]
        ELSE [threw |-> FALSE, content |-> answerText.s, isReminder |-> isReminder]

(***************************************************************************)
(* Messages (handleSubmit 86-91, 125-131, 139-145).                        *)
(***************************************************************************)
MsgId(prefix, t) == [prefix |-> prefix, t |-> t]

userMessage(trimmed, t) ==
  [id |-> MsgId("user", t), role |-> "user", name |-> "me",
   content |-> trimmed, variant |-> "undefined"]

agentMessage(decoratedAnswer, isReminder, t) ==
  [id |-> MsgId("agent", t), role |-> "agent", name |-> "Mindual",
   content |-> decoratedAnswer,
   variant |-> IF isReminder THEN "reminder" ELSE "undefined"]

errorMessage(t) ==
  [id |-> MsgId("agent", t), role |-> "agent", name |-> "Mindual",
   content |-> ApologyText, variant |-> "undefined"]

(***************************************************************************)
(* Outcomes of fetch(): the promise rejects (network error) or resolves    *)
(* with a response that carries a status.                                  *)
(***************************************************************************)
NetworkError == [rejected |-> TRUE, status |-> 0]
Status(c) == [rejected |-> FALSE, status |-> c]
FetchOutcomes == {NetworkError, Status(200), Status(500)}

RespOk(resp) == resp.status >= 200 /\ resp.status <= 299

(***************************************************************************)
(* The calendar response body (fetchEvents 68-69): resp.json() rejects, or *)
(* resolves with null or with an object whose events field is optional.    *)
(***************************************************************************)
ParseError == [parsed |-> FALSE, isNull |-> FALSE, events |-> NoArr]
CalNull == [parsed |-> TRUE, isNull |-> TRUE, events |-> NoArr]
CalObj(ev) == [parsed |-> TRUE, isNull |-> FALSE, events |-> ev]

CalBodies ==
  { ParseError, CalNull, CalObj(NoArr), CalObj(Arr(<<2, 1>>)) }

\* data.events || []
OrEmpty(ev) == IF ev.t = "array" THEN ev.a ELSE <<>>

(***************************************************************************)
(* Dates (new Date(year, monthIndex, day), getDay, getDate) and the        *)
(* calendar of the month (lines 9-19, 27-57).  A date is a local calendar  *)
(* day; monthIndex counts from 0 and getDay from Sunday = 0.               *)
(***************************************************************************)
IsLeap(y) == (y % 4 = 0 /\ y % 100 # 0) \/ y % 400 = 0

MonthLen(y, m) ==
  IF m = 1 THEN (IF IsLeap(y) THEN 29 ELSE 28)
  ELSE IF m \in {3, 5, 8, 10} THEN 30 ELSE 31

\* new Date(year, monthIndex, day): a monthIndex of 12 is January of the next
\* year, day 0 is the last day of the month before, a day past the end of the
\* month runs into the next month
RECURSIVE NewDate(_, _, _)
NewDate(y, m, d) ==
  IF m > 11 THEN NewDate(y + 1, m - 12, d)
  ELSE IF m < 0 THEN NewDate(y - 1, m + 12, d)
  ELSE IF d < 1 THEN NewDate(y, m - 1, d + MonthLen(IF m = 0 THEN y - 1 ELSE y,
                                                     IF m = 0 THEN 11 ELSE m - 1))
  ELSE IF d > MonthLen(y, m) THEN NewDate(y, m + 1, d - MonthLen(y, m))
  ELSE [year |-> y, month |-> m, date |-> d]

\* days from 1 January 1970, a Thursday, to the date
RECURSIVE DaysBeforeYear(_)
DaysBeforeYear(y) ==
  IF y <= 1970 THEN 0
  ELSE DaysBeforeYear(y - 1) + (IF IsLeap(y - 1) THEN 366 ELSE 365)

RECURSIVE DaysBeforeMonth(_, _)
DaysBeforeMonth(y, m) ==
  IF m = 0 THEN 0 ELSE DaysBeforeMonth(y, m - 1) + MonthLen(y, m - 1)

getDay(date) ==
  (4 + DaysBeforeYear(date.year) + DaysBeforeMonth(date.year, date.month)
     + (date.date - 1)) % 7

\* `${n}`.padStart(2, '0')
PadStart2(text) == IF Len(text) < 2 THEN <<"0">> \o text ELSE text

\* formatISODate, lines 9-14
formatISODate(date) ==
  NumText(date.year) \o <<"-">> \o PadStart2(NumText(date.month + 1))
    \o <<"-">> \o PadStart2(NumText(date.date))

\* a padding slot (null) and a day cell of the grid
NullCell == [isNull |-> TRUE, key |-> <<>>, label |-> 0, isToday |-> FALSE]
DayCell(key, label, isToday) ==
  [isNull |-> FALSE, key |-> key, label |-> label, isToday |-> isToday]

\* line 40: for (let day = 1; day <= daysInMonth; day += 1)
LastDayExclusive(daysInMonth) == daysInMonth - 1
LastDay(daysInMonth) == daysInMonth

\* line 45: isToday: day === today.getDate()
IsTodayByWeekday(day, ref) == day = getDay(ref)
IsToday(day, ref) == day = ref.date

\* lines 49-51: while (cells.length % 7 !== 0) cells.push(null)
RECURSIVE PadTail(_)
PadTail(cells) == IF Len(cells) % 7 # 0 THEN PadTail(Append(cells, NullCell)) ELSE cells

\* the useMemo of lines 27-57; "Y" and "M" stand for the year and month
\* characters of the label's template (line 54)
calendarMemo(ref) ==
  LET year == ref.year
      monthIndex == ref.month
      firstDay == NewDate(year, monthIndex, 1)
      startWeekday == getDay(firstDay)
      daysInMonth == NewDate(year, monthIndex + 1, 0).date
      lead == [i \in 1..startWeekday |-> NullCell]
      days == [day \in 1..LastDay(daysInMonth) |->
                 DayCell(formatISODate(NewDate(year, monthIndex, day)), day,
                         IsToday(day, ref))]
  IN  [rendered |-> TRUE,
       label |-> NumText(year) \o <<"Y ">> \o NumText(monthIndex + 1) \o <<"M">>,
       cells |-> PadTail(lead \o days)]

\* before the first render
Unrendered == [rendered |-> FALSE, label |-> <<>>, cells |-> <<>>]

\* the reference dates: every day of the years 2000 .. 2000 + YearSpan, which
\* has every month length starting on every weekday
Years == 2000..(2000 + YearSpan)

Dates ==
  {d \in [year : Years, month : 0..11, date : 1..31] : d.date <= MonthLen(d.year, d.month)}

(***************************************************************************)
(* The pieces of the two async functions.                                  *)
(***************************************************************************)
\* handleSubmit 84: if (!trimmed || loading) return
RejectsEmptyOnly(trimmed, isLoading) == trimmed = <<>>
Rejects(trimmed, isLoading) == trimmed = <<>> \/ isLoading

\* handleSubmit 137-146: the catch block appends the apology message
CatchAppendReplace(prev, t) == <<errorMessage(t)>>
CatchAppendNothing(prev, t) == prev
CatchAppend(prev, t) == Append(prev, errorMessage(t))

\* handleSubmit 134: if (isReminder) await fetchEvents()
CallsFetchEventsAlways(isReminder) == TRUE
CallsFetchEvents(isReminder) == isReminder

\* fetchEvents 69: setCalendarEvents(data.events || []); the promise fulfils
fetchEventsThenMerge(prev, body) ==
  [events |-> prev \o OrEmpty(body.events), settled |-> "fulfilled"]
fetchEventsThen(prev, body) ==
  [events |-> OrEmpty(body.events), settled |-> "fulfilled"]

\* fetchEvents 70-73: setCalendarEvents([]); the error is swallowed
fetchEventsCatchRethrow(prev) == [events |-> <<>>, settled |-> "rejected"]
fetchEventsCatchKeep(prev) == [events |-> prev, settled |-> "fulfilled"]
fetchEventsCatch(prev) == [events |-> <<>>, settled |-> "fulfilled"]

\* an accepted handleSubmit invocation, suspended at line 98
NewCall(trimmed) == [pc |-> "fetch", query |-> trimmed, outcome |-> "pending",
                     reminder |-> FALSE, awaited |-> "none"]

\* a fetchEvents invocation, suspended at line 64; caller 0 is the mount effect
NewRefresh(caller) == [pc |-> "fetch", caller |-> caller, outcome |-> "pending",
                       settled |-> "pending", list |-> <<>>]

\* a continuation of handleSubmit is queued behind the settled fetchEvents()
MicrotaskPending == \E i \in 1..Len(calls) : calls[i].pc = "resume"

\* Date.now(), lines 87, 126, 140.  The clock does not run backwards and every
\* reading of it ends up in the id of the message appended last.  Only the order
\* of the readings is observable, so a reading is the previous one (the same
\* millisecond) or the next value (a later millisecond).
LastNow == IF messages = <<>> THEN 0 ELSE messages[Len(messages)].id.t

DateNow == {t \in {LastNow, LastNow + 1} : t <= MaxClock}

Init ==
  /\ messages = <<>>
  /\ question = <<>>
  /\ loading = FALSE
  /\ calendarEvents = <<>>
  /\ mounted = FALSE
  /\ calls = <<>>
  /\ refreshes = <<>>
  /\ lastOp = "other"
  /\ ragBody = NullData
  /\ today = NewDate(2026, 10, 3)
  /\ calendar = calendarMemo(today)

\* useEffect(() => { fetchEvents() }, []), lines 77-79
Mount ==
  /\ ~mounted
  /\ mounted' = TRUE
  /\ refreshes' = Append(refreshes, NewRefresh(0))
  /\ lastOp' = "other"
  /\ UNCHANGED <<messages, question, loading, calendarEvents, calls>>
  /\ UNCHANGED pure

\* onChange={(event) => setQuestion(event.target.value)}, line 218.  The
\* disabled attribute of line 220 keeps the user from typing while loading; it
\* does not keep a change event from being dispatched to the element, so the
\* handler is enabled in every state.
onChange(value) ==
  /\ mounted /\ ~MicrotaskPending
  /\ question' = value
  /\ lastOp' = "other"
  /\ UNCHANGED <<messages, loading, calendarEvents, mounted, calls, refreshes>>
  /\ UNCHANGED pure

\* handleSubmit 81-104: up to the suspension at await fetch(RAG_API_URL, ...)
handleSubmit(now) ==
  /\ mounted /\ ~MicrotaskPending
  /\ lastOp' = "handleSubmit"
  /\ LET trimmed == Trim(question)
     IN  IF Rejects(trimmed, loading)
         THEN UNCHANGED <<messages, question, loading, calls>>
         ELSE /\ Len(calls) < MaxSubmits
              /\ messages' = Append(messages, userMessage(trimmed, now))
              /\ question' = <<>>
              /\ loading' = TRUE
              /\ calls' = Append(calls, NewCall(trimmed))
  /\ UNCHANGED <<calendarEvents, mounted, refreshes>>
  /\ UNCHANGED pure

\* handleSubmit 137-149: catch, then finally; kind names what was thrown
Fail(i, kind, now) ==
  /\ lastOp' = kind
  /\ messages' = CatchAppend(messages, now)
  /\ loading' = FALSE
  /\ calls' = [calls EXCEPT ![i].pc = "done", ![i].outcome = "failed"]
  /\ UNCHANGED refreshes

\* handleSubmit 98-108: the fetch settles
RagFetchSettle(i, resp, now) ==
  /\ ~MicrotaskPending
  /\ calls[i].pc = "fetch"
  /\ IF resp.rejected THEN Fail(i, "network", now)
     ELSE IF ~RespOk(resp) THEN Fail(i, "status", now)
     ELSE /\ lastOp' = "other"
          /\ calls' = [calls EXCEPT ![i].pc = "json"]
          /\ UNCHANGED <<messages, loading, refreshes>>
  /\ UNCHANGED <<question, calendarEvents, mounted>>
  /\ UNCHANGED pure

\* handleSubmit 110-136, 147-149: resp.json() settles
RagJsonSettle(i, body, now) ==
  /\ ~MicrotaskPending
  /\ calls[i].pc = "json"
  /\ LET r == Interpret(body.data)
     IN  IF ~body.parsed THEN Fail(i, "parse", now)
         ELSE IF r.threw THEN Fail(i, "shape", now)
         ELSE /\ lastOp' = "other"
              /\ messages' = Append(messages, agentMessage(r.content, r.isReminder, now))
              /\ IF CallsFetchEvents(r.isReminder)
                 THEN /\ refreshes' = Append(refreshes, NewRefresh(i))
                      /\ calls' = [calls EXCEPT ![i].pc = "events", ![i].outcome = "ok",
                                                ![i].reminder = r.isReminder]
                      /\ UNCHANGED loading
                 ELSE /\ loading' = FALSE
                      /\ calls' = [calls EXCEPT ![i].pc = "done", ![i].outcome = "ok",
                                                ![i].reminder = r.isReminder]
                      /\ UNCHANGED refreshes
  /\ UNCHANGED <<question, calendarEvents, mounted>>
  /\ UNCHANGED pure

\* fetchEvents returns: its promise settles and the awaiting caller is queued
Settle(r, kind, res, list) ==
  /\ calendarEvents' = res.events
  /\ refreshes' = [refreshes EXCEPT ![r].pc = "done", ![r].outcome = kind,
                                    ![r].settled = res.settled, ![r].list = list]
  /\ calls' = IF refreshes[r].caller = 0 THEN calls
              ELSE [calls EXCEPT ![refreshes[r].caller].pc = "resume",
                                 ![refreshes[r].caller].awaited = res.settled]

\* fetchEvents 64-67, 70-73: the fetch settles
EventsFetchSettle(r, resp) ==
  /\ ~MicrotaskPending
  /\ refreshes[r].pc = "fetch"
  /\ lastOp' = "other"
  /\ IF resp.rejected THEN Settle(r, "failed", fetchEventsCatch(calendarEvents), <<>>)
     ELSE IF ~RespOk(resp) THEN Settle(r, "failed", fetchEventsCatch(calendarEvents), <<>>)
     ELSE /\ refreshes' = [refreshes EXCEPT ![r].pc = "json"]
          /\ UNCHANGED <<calendarEvents, calls>>
  /\ UNCHANGED <<messages, question, loading, mounted>>
  /\ UNCHANGED pure

\* fetchEvents 68-73: resp.json() settles
EventsJsonSettle(r, body) ==
  /\ ~MicrotaskPending
  /\ refreshes[r].pc = "json"
  /\ lastOp' = "other"
  /\ IF ~body.parsed THEN Settle(r, "failed", fetchEventsCatch(calendarEvents), <<>>)
     ELSE IF body.isNull THEN Settle(r, "failed", fetchEventsCatch(calendarEvents), <<>>)
     ELSE Settle(r, "ok", fetchEventsThen(calendarEvents, body), OrEmpty(body.events))
  /\ UNCHANGED <<messages, question, loading, mounted>>
  /\ UNCHANGED pure

\* handleSubmit 135-149: the continuation after await fetchEvents()
ResumeSubmit(i, now) ==
  /\ calls[i].pc = "resume"
  /\ lastOp' = "other"
  /\ IF calls[i].awaited = "rejected"
     THEN /\ messages' = CatchAppend(messages, now)
          /\ calls' = [calls EXCEPT ![i].pc = "done", ![i].outcome = "failed"]
     ELSE /\ calls' = [calls EXCEPT ![i].pc = "done"]
          /\ UNCHANGED messages
  /\ loading' = FALSE
  /\ UNCHANGED <<question, calendarEvents, mounted, refreshes>>
  /\ UNCHANGED pure

Next ==
  \/ Mount
  \/ \E value \in Drafts : onChange(value)
  \/ \E now \in DateNow : handleSubmit(now)
  \/ \E i \in 1..Len(calls) : \E resp \in FetchOutcomes : \E now \in DateNow :
       RagFetchSettle(i, resp, now)
  \/ \E i \in 1..Len(calls) : \E body \in RagJsonOutcomes : \E now \in DateNow :
       RagJsonSettle(i, body, now)
  \/ \E r \in 1..Len(refreshes) : \E resp \in FetchOutcomes : EventsFetchSettle(r, resp)
  \/ \E r \in 1..Len(refreshes) : \E body \in CalBodies : EventsJsonSettle(r, body)
  \/ \E i \in 1..Len(calls) : \E now \in DateNow : ResumeSubmit(i, now)

Spec == Init /\ [][Next]_vars

(***************************************************************************)
(* The response interpretation on its own: the session has accepted one    *)
(* submit and its fetch has resolved with an ok status; resp.json() then   *)
(* resolves with a body drawn from every combination of present, null and  *)
(* absent fields.                                                          *)
(***************************************************************************)
PageValues == {Undef, Null, Num(0), Num(12)}

InterpFragments ==
  {NullFrag} \cup {Frag(p, pn) : p \in PageValues, pn \in {Undef, Num(7)}}

InterpBodies ==
  {NullData} \cup
  { Obj(an, re, co, so, it) :
      an \in {Undef, Null, X},
      re \in {Undef, Y},
      co \in {NoArr, NullArr, Arr(<<>>)} \cup {Arr(<<f>>) : f \in InterpFragments},
      so \in {NoArr, Arr(<<Frag(Undef, Num(7))>>)},
      it \in {Undef, Null, Rag, Reminder} }

InitInterp ==
  /\ messages = <<userMessage(<<"a">>, 0)>>
  /\ question = <<>>
  /\ loading = TRUE
  /\ calendarEvents = <<>>
  /\ mounted = TRUE
  /\ calls = <<[NewCall(<<"a">>) EXCEPT !.pc = "json"]>>
  /\ refreshes = <<NewRefresh(0)>>
  /\ lastOp = "other"
  /\ ragBody \in InterpBodies
  /\ today = NewDate(2026, 10, 3)
  /\ calendar = calendarMemo(today)

NextInterp == \E now \in DateNow : RagJsonSettle(1, Parsed(ragBody), now)

SpecInterp == InitInterp /\ [][NextInterp]_vars

(***************************************************************************)
(* The calendar on its own: today is any reference date (lines 16-19) and  *)
(* the first render computes the month grid from it.                       *)
(***************************************************************************)
InitCal ==
  /\ messages = <<>>
  /\ question = <<>>
  /\ loading = FALSE
  /\ calendarEvents = <<>>
  /\ mounted = FALSE
  /\ calls = <<>>
  /\ refreshes = <<>>
  /\ lastOp = "other"
  /\ ragBody = NullData
  /\ today \in Dates
  /\ calendar = Unrendered

RenderCalendar ==
  /\ ~calendar.rendered
  /\ calendar' = calendarMemo(today)
  /\ UNCHANGED <<messages, question, loading, calendarEvents, mounted, calls,
                 refreshes, lastOp, ragBody, today>>

NextCal == RenderCalendar

SpecCal == InitCal /\ [][NextCal]_vars

(***************************************************************************)
(* Observations used by the properties.                                    *)
(***************************************************************************)
\* the accepted submits whose RAG request has not completed
InFlight == {i \in 1..Len(calls) : calls[i].pc \in {"fetch", "json"}}

\* the accepted submits whose RAG request has completed and been handled
Answered == {i \in 1..Len(calls) : calls[i].outcome # "pending"}

IsBlank(s) == \A k \in 1..Len(s) : s[k] \in WhiteSpace

RefreshesOf(caller) == {r \in 1..Len(refreshes) : refreshes[r].caller = caller}

\* the display texts a successfully interpreted response can produce
AnswerTexts == {Interpret(d).content : d \in {b \in RagBodies : ~Interpret(b).threw}}

(***************************************************************************)
(* C1: a submit made while awaiting-response (loading) is true is          *)
(* rejected: the step leaves the message sequence unchanged and issues no  *)
(* RAG request, at whatever point between the state updates it arrives.    *)
(***************************************************************************)
C1_SubmitWhileLoadingRejected ==
  [][(lastOp' = "handleSubmit" /\ loading) =>
       (messages' = messages /\ calls' = calls)]_vars

\* a submit with a non-blank draft arrived while the first request was in
\* flight and left the draft in place
C1_Witness ==
  /\ lastOp = "handleSubmit"
  /\ loading
  /\ ~IsBlank(question)
  /\ InFlight # {}
  /\ Len(messages) = 1

(***************************************************************************)
(* C2: at most one RAG request is in flight in every reachable state, and  *)
(* no user message directly follows another user message.                  *)
(***************************************************************************)
C2_AtMostOneInFlight ==
  /\ Cardinality(InFlight) <= 1
  /\ \A k \in 1..(Len(messages) - 1) :
       messages[k].role = "user" => messages[k + 1].role = "agent"

\* the second turn's request is in flight after the first turn was answered
C2_Witness ==
  /\ Cardinality(InFlight) = 1
  /\ Len(calls) = 2
  /\ Len(messages) = 3
  /\ lastOp = "handleSubmit"
  /\ ~IsBlank(question)

(***************************************************************************)
(* C3: a submit whose draft is empty or whitespace only changes nothing:   *)
(* messages, draft, loading flag and event store stay as they are and no   *)
(* RAG request or refresh is issued.                                       *)
(***************************************************************************)
C3_BlankSubmitNoOp ==
  [][(lastOp' = "handleSubmit" /\ IsBlank(question)) =>
       UNCHANGED <<messages, question, loading, calendarEvents, calls, refreshes>>]_vars

\* a whitespace-only draft was submitted while idle
C3_Witness ==
  /\ lastOp = "handleSubmit"
  /\ question # <<>>
  /\ IsBlank(question)
  /\ ~loading
  /\ messages = <<>>

(***************************************************************************)
(* C4: the session never stays in Sending after its RAG request has        *)
(* completed: whenever the latest request has completed and been handled   *)
(* and no continuation is queued, awaiting-response (loading) is false.    *)
(***************************************************************************)
C4_IdleOnceRequestCompleted ==
  (calls # <<>> /\ InFlight = {} /\ ~MicrotaskPending) => ~loading

(***************************************************************************)
(* C5: the step that handles a reminder-intent response and appends the    *)
(* agent message sets awaiting-response (loading) back to false, without   *)
(* waiting for the event refresh it triggers.                              *)
(***************************************************************************)
C5_RefreshDoesNotDelayTurn ==
  [][\A i \in 1..Len(calls) :
       (calls[i].pc = "json" /\ calls'[i].outcome = "ok" /\ calls'[i].reminder)
         => ~loading']_vars

(***************************************************************************)
(* C6: every accepted submit whose request has completed has exactly one   *)
(* agent message, directly after its user message: the apology text if     *)
(* the request failed, an interpreted answer if it succeeded; a failed     *)
(* event refresh adds no message.                                          *)
(***************************************************************************)
C6_ExactlyOneAgentMessage ==
  /\ Len(messages) = Len(calls) + Cardinality(Answered)
  /\ \A i \in Answered :
       /\ 2 * i <= Len(messages)
       /\ messages[2 * i - 1].role = "user"
       /\ messages[2 * i].role = "agent"
       /\ calls[i].outcome = "failed" <=> messages[2 * i].content = ApologyText
       /\ calls[i].outcome = "ok" => messages[2 * i].content \in AnswerTexts

\* a reminder turn ran to its end although the refresh it triggered failed
C6_Witness ==
  \E i \in 1..Len(calls) : \E r \in RefreshesOf(i) :
    /\ calls[i].pc = "done"
    /\ calls[i].reminder
    /\ refreshes[r].outcome = "failed"
    /\ messages[2 * i].variant = "reminder"
    /\ Len(messages) = 2 * Len(calls)

(***************************************************************************)
(* C7: refreshes are issued only at session start and on reminder-intent   *)
(* responses: one for the mount, exactly one for every successfully        *)
(* handled reminder response, none for any other response or a failure.    *)
(***************************************************************************)
C7_RefreshCount ==
  /\ Cardinality(RefreshesOf(0)) = IF mounted THEN 1 ELSE 0
  /\ \A i \in 1..Len(calls) :
       Cardinality(RefreshesOf(i)) =
         IF calls[i].outcome = "ok" /\ calls[i].reminder THEN 1 ELSE 0
  /\ Len(refreshes) = (IF mounted THEN 1 ELSE 0)
       + Cardinality({i \in 1..Len(calls) : calls[i].outcome = "ok" /\ calls[i].reminder})

\* a reminder turn and a plain turn have both been answered
C7_Witness ==
  /\ Len(calls) = 2
  /\ \A i \in 1..2 : calls[i].outcome = "ok"
  /\ calls[1].reminder
  /\ ~calls[2].reminder
  /\ Len(refreshes) = 2

(***************************************************************************)
(* C8: the step in which a RAG request fails appends exactly one agent     *)
(* message with the apology text and no variant, issues no refresh and no  *)
(* further RAG request, and ends the turn.                                 *)
(***************************************************************************)
C8_FailureAppendsApology ==
  [][\A i \in 1..Len(calls) :
       (calls[i].outcome = "pending" /\ calls'[i].outcome = "failed") =>
         /\ Len(messages') = Len(messages) + 1
         /\ SubSeq(messages', 1, Len(messages)) = messages
         /\ messages'[Len(messages')].role = "agent"
         /\ messages'[Len(messages')].content = ApologyText
         /\ messages'[Len(messages')].variant = "undefined"
         /\ refreshes' = refreshes
         /\ Len(calls') = Len(calls)
         /\ calls'[i].pc = "done"
         /\ InFlight' = {}]_vars

\* the second turn's response could not be parsed
C8_Witness ==
  /\ lastOp = "parse"
  /\ Len(calls) = 2
  /\ calls[2].outcome = "failed"
  /\ Len(messages) = 4
  /\ messages[4].content = ApologyText

C10_StoreIsOneFetchResult ==
  /\ [](\/ calendarEvents = <<>>
        \/ \E r \in 1..Len(refreshes) :
             refreshes[r].outcome = "ok" /\ calendarEvents = refreshes[r].list)
  /\ [][/\ \A r \in 1..Len(refreshes) :
             /\ (refreshes[r].outcome = "pending" /\ refreshes'[r].outcome = "ok")
                  => calendarEvents' = refreshes'[r].list
             /\ (refreshes[r].outcome = "pending" /\ refreshes'[r].outcome = "failed")
                  => calendarEvents' = <<>>
        /\ (\A r \in 1..Len(refreshes) : refreshes'[r].outcome = refreshes[r].outcome)
             => calendarEvents' = calendarEvents]_vars

\* two refreshes succeeded with different lists; the store holds the complete
\* list of one of them
C10_Witness ==
  /\ Len(refreshes) >= 2
  /\ refreshes[1].outcome = "ok" /\ refreshes[1].list = <<>>
  /\ refreshes[2].outcome = "ok" /\ refreshes[2].list = <<2, 1>>
  /\ calendarEvents = <<2, 1>>

(***************************************************************************)
(* What a well-formed response says, read off the body field by field.     *)
(***************************************************************************)
Present(v) == v.t \notin {"undefined", "null"}

ExpectedAnswer(d) ==
  CASE Present(d.answer) -> d.answer.s
    [] ~Present(d.answer) /\ Present(d.result) -> d.result.s
    [] OTHER -> FallbackText

ExpectedSources(d) ==
  CASE Present(d.contexts) -> d.contexts.a
    [] ~Present(d.contexts) /\ Present(d.sources) -> d.sources.a
    [] OTHER -> <<>>

IsReminderIntent(d) == d.intent.t = "string" /\ d.intent.s = <<"reminder">>

\* the response of the one request has been handled
Interpreted == Len(calls) = 1 /\ calls[1].outcome # "pending" /\ Len(messages) = 2

(***************************************************************************)
(* C11: for a received body whose intent is "reminder" the agent message   *)
(* is exactly the answer text, without citation suffix whatever the source *)
(* fragments are, and carries the reminder variant; for every other or     *)
(* absent intent the message carries no reminder variant.                  *)
(***************************************************************************)
C11_ReminderHasNoCitation ==
  (Interpreted /\ ~ragBody.isNull) =>
    IF IsReminderIntent(ragBody)
    THEN /\ calls[1].outcome = "ok"
         /\ messages[2].content = ExpectedAnswer(ragBody)
         /\ messages[2].variant = "reminder"
    ELSE messages[2].variant = "undefined"

\* a reminder response that comes with a source fragment on page 12
C11_Witness ==
  /\ Interpreted
  /\ ragBody = Obj(X, Y, Arr(<<Frag(Num(12), Undef)>>), NoArr, Reminder)
  /\ messages[2].content = <<"X">>
  /\ messages[2].variant = "reminder"

(***************************************************************************)
(* C12: for a non-reminder body whose first source fragment has a page     *)
(* number under page, else page_number, whatever its value, the display    *)
(* text is the answer followed by one citation suffix naming that page;    *)
(* without fragments, or without either field, it is the answer unchanged. *)
(***************************************************************************)
C12_CitationForEveryPage ==
  (Interpreted /\ ~ragBody.isNull /\ ~IsReminderIntent(ragBody)) =>
    LET src == ExpectedSources(ragBody)
        ans == ExpectedAnswer(ragBody)
    IN  IF src = <<>> THEN messages[2].content = ans
        ELSE src[1].isNull \/
             IF Present(src[1].page) \/ Present(src[1].page_number)
             THEN messages[2].content =
                    ans \o CitationHead
                        \o Template(IF Present(src[1].page) THEN src[1].page
                                    ELSE src[1].page_number)
                        \o CitationTail
             ELSE messages[2].content = ans

(***************************************************************************)
(* C13: absent (or null) fields of a received object are resolved by       *)
(* defaults and never produce the apology: the text starts with answer,    *)
(* else result, else the fallback text; a citation is only added for       *)
(* fragments taken from contexts, else sources; the intent defaults to     *)
(* "rag"; the empty object gives the bare fallback text and no variant.    *)
(***************************************************************************)
C13_DefaultsForAbsentFields ==
  LET src == ExpectedSources(ragBody)
      ans == ExpectedAnswer(ragBody)
      rem == IsReminderIntent(ragBody)
  IN  (Interpreted /\ ~ragBody.isNull /\ (rem \/ src = <<>> \/ ~src[1].isNull)) =>
        /\ calls[1].outcome = "ok"
        /\ messages[2].content # ApologyText
        /\ Len(messages[2].content) >= Len(ans)
        /\ SubSeq(messages[2].content, 1, Len(ans)) = ans
        /\ (rem \/ src = <<>>) => messages[2].content = ans
        /\ messages[2].variant = IF rem THEN "reminder" ELSE "undefined"
        /\ calls[1].reminder = rem
        /\ ragBody = Obj(Undef, Undef, NoArr, NoArr, Undef) =>
             (messages[2].content = FallbackText /\ messages[2].variant = "undefined")

\* the empty object was answered with the fallback text
C13_Witness ==
  /\ Interpreted
  /\ ragBody = Obj(Undef, Undef, NoArr, NoArr, Undef)
  /\ messages[2].content = FallbackText
  /\ ~loading

(***************************************************************************)
(* The month of a reference date, by the calendar rules: the month lengths *)
(* and the weekday of a day by Sakamoto's congruence.                      *)
(***************************************************************************)
RefMonthLen(y, m) ==
  <<31, IF (y % 4 = 0 /\ y % 100 # 0) \/ y % 400 = 0 THEN 29 ELSE 28,
    31, 30, 31, 30, 31, 31, 30, 31, 30, 31>>[m + 1]

RefWeekday(y, m, d) ==
  LET yy == IF m < 2 THEN y - 1 ELSE y
  IN  (yy + (yy \div 4) - (yy \div 100) + (yy \div 400)
          + <<0, 3, 2, 5, 0, 3, 5, 1, 4, 6, 2, 4>>[m + 1] + d) % 7

DayCells == {k \in 1..Len(calendar.cells) : ~calendar.cells[k].isNull}

(***************************************************************************)
(* C14: for every reference date the grid's length is a multiple of 7, the *)
(* number of non-empty cells is the number of days of the month, exactly   *)
(* startWeekday empty cells precede day 1 and fewer than 7 follow the last *)
(* day.                                                                    *)
(***************************************************************************)
C14_GridShape ==
  calendar.rendered =>
    LET n == RefMonthLen(today.year, today.month)
        w == RefWeekday(today.year, today.month, 1)
        cells == calendar.cells
    IN  /\ Len(cells) % 7 = 0
        /\ Cardinality(DayCells) = n
        /\ DayCells = (w + 1)..(w + n)
        /\ \A k \in DayCells : cells[k].label = k - w
        /\ Len(cells) - (w + n) < 7

\* a month of 31 days that starts on a Saturday fills six weeks
C14_Witness ==
  /\ calendar.rendered
  /\ Len(calendar.cells) = 42
  /\ calendar.cells[6].isNull
  /\ ~calendar.cells[7].isNull
  /\ Cardinality(DayCells) = 31

(***************************************************************************)
(* C15: exactly one cell is marked isToday when the reference day of month *)
(* lies within the month and none otherwise, the marked cell is the one    *)
(* whose day number is the reference day, and the isoDate keys of the      *)
(* non-empty cells are pairwise distinct.                                  *)
(***************************************************************************)
C15_OneTodayCell ==
  calendar.rendered =>
    LET marked == {k \in DayCells : calendar.cells[k].isToday}
    IN  /\ Cardinality(marked) =
             IF today.date <= RefMonthLen(today.year, today.month) THEN 1 ELSE 0
        /\ \A k \in marked : calendar.cells[k].label = today.date
        /\ \A j, k \in DayCells :
             calendar.cells[j].key = calendar.cells[k].key => j = k

\* 29 February of a leap year is marked
C15_Witness ==
  /\ calendar.rendered
  /\ today.month = 1
  /\ today.date = 29
  /\ \E k \in DayCells :
       /\ calendar.cells[k].isToday
       /\ calendar.cells[k].label = 29
       /\ calendar.cells[k].key = <<"2", "0", "2", "4", "-", "0", "2", "-", "2", "9">>

(***************************************************************************)
(* C16: once every refresh has completed, the event store reflects the     *)
(* response to the most recently issued refresh, not the response of an    *)
(* earlier-issued refresh that completed later.  Refreshes are recorded in *)
(* the order in which they were issued.                                    *)
(***************************************************************************)
C16_StoreReflectsLatestRefresh ==
  (refreshes # <<>> /\ \A r \in 1..Len(refreshes) : refreshes[r].pc = "done") =>
    LET latest == refreshes[Len(refreshes)]
    IN  calendarEvents = IF latest.outcome = "ok" THEN latest.list ELSE <<>>

(***************************************************************************)
(* C17: in every reachable state the message ids are pairwise distinct and *)
(* ordered consistently with creation order, also when a request completes *)
(* in the millisecond of its submit and when two turns fall in the same    *)
(* millisecond.                                                            *)
(***************************************************************************)
C17_IdsDistinctAndOrdered ==
  \A j, k \in 1..Len(messages) :
    j < k => /\ messages[j].id # messages[k].id
             /\ messages[j].id.t <= messages[k].id.t

(***************************************************************************)
(* C18: the message sequence is append-only: every step leaves it          *)
(* unchanged or extends it by exactly one message at the end, and a step   *)
(* of an event refresh never changes it.                                   *)
(***************************************************************************)
C18_AppendOnly ==
  [][/\ \/ messages' = messages
        \/ /\ Len(messages') = Len(messages) + 1
           /\ SubSeq(messages', 1, Len(messages)) = messages
     /\ (\E r \in 1..Len(refreshes) : refreshes'[r] # refreshes[r])
          => messages' = messages]_vars

\* two turns have been answered and a refresh has completed
C18_Witness ==
  /\ Len(messages) = 4
  /\ \E r \in 1..Len(refreshes) : refreshes[r].pc = "done"
  /\ \E i \in 1..Len(calls) : calls[i].outcome = "failed"

(***************************************************************************)
(* C19: an accepted submit appends the user message whose content is the   *)
(* draft without its leading and trailing white space, clears the draft    *)
(* and sets awaiting-response; in every state in which a RAG request is in *)
(* flight awaiting-response is true and the last message is the user       *)
(* message carrying the text sent in the request, and while the request is *)
(* in flight the draft changes only by an edit of the draft.               *)
(***************************************************************************)
Stripped(draft, text) ==
  /\ text # <<>>
  /\ text[1] \notin WhiteSpace
  /\ text[Len(text)] \notin WhiteSpace
  /\ \E a \in 0..Len(draft) :
       /\ a + Len(text) <= Len(draft)
       /\ SubSeq(draft, a + 1, a + Len(text)) = text
       /\ IsBlank(SubSeq(draft, 1, a))
       /\ IsBlank(SubSeq(draft, a + Len(text) + 1, Len(draft)))

C19_AcceptedSubmit ==
  /\ [](\A i \in InFlight :
          /\ loading
          /\ messages # <<>>
          /\ messages[Len(messages)].role = "user"
          /\ messages[Len(messages)].content = calls[i].query)
  /\ [][/\ Len(calls') > Len(calls) =>
             /\ Len(messages') = Len(messages) + 1
             /\ messages'[Len(messages')].role = "user"
             /\ Stripped(question, messages'[Len(messages')].content)
             /\ calls'[Len(calls')].query = messages'[Len(messages')].content
             /\ calls'[Len(calls')].pc = "fetch"
             /\ question' = <<>>
             /\ loading'
        /\ (InFlight # {} /\ question' # question) =>
             UNCHANGED <<messages, loading, calls, refreshes, calendarEvents>>]_vars

\* the draft " a<tab>" was accepted and its request is in flight
C19_Witness ==
  /\ lastOp = "handleSubmit"
  /\ InFlight # {}
  /\ question = <<>>
  /\ loading
  /\ messages[Len(messages)].content = <<"a">>

(***************************************************************************)
(* C20: the message sequence strictly alternates user, agent, user, agent, *)
(* ... starting with a user message: the user messages are as many as the  *)
(* agent messages when the session is idle and one more while a request is *)
(* in flight.                                                              *)
(***************************************************************************)
RoleCount(role) == Cardinality({k \in 1..Len(messages) : messages[k].role = role})

C20_StrictAlternation ==
  /\ \A k \in 1..Len(messages) :
       messages[k].role = IF k % 2 = 1 THEN "user" ELSE "agent"
  /\ ~loading => RoleCount("user") = RoleCount("agent")
  /\ InFlight # {} => RoleCount("user") = RoleCount("agent") + 1

\* the second request is in flight after a failed first turn
C20_Witness ==
  /\ Len(messages) = 3
  /\ InFlight # {}
  /\ messages[2].content = ApologyText

====
